---- MODULE Spec2Model ----
(***************************************************************************)
(* Model of sleepandeatbot.py: the extraction of sleep and feed records    *)
(* from a chat export (BabyDataAnalyzer.parse_chat_data), the per-day      *)
(* statistics (get_daily_stats, format_daily_stats), the timeline series   *)
(* (create_timeline_chart) and the two handlers that drive them            *)
(* (handle_document, data_command).                                        *)
(*                                                                         *)
(* Representation.                                                         *)
(*   date      the proleptic Gregorian ordinal (date.toordinal())          *)
(*   time      minutes since midnight, 0..1439                             *)
(*   datetime  [date |-> ordinal, min |-> minutes since midnight]          *)
(*   timedelta minutes; the code's hours are minutes / 60                  *)
(*   "HH:MM"   the pair <<hour digits, minute digits>> the regex captured; *)
(*             a digit is [v |-> its value, ascii |-> whether it is one of *)
(*             0-9], since \d also matches the decimal digits of other     *)
(*             scripts                                                     *)
(*   ISO date  [y, m, d, hh, mi]                                           *)
(*   "dd.mm.yyyy" argument  [kind |-> "date", d, m, y]; any other word     *)
(*             [kind |-> "word", text |-> the sequence of its code points] *)
(*   amount    the group \d+ as [len |-> number of digits, value |-> int]   *)
(*   message text  the outcome of the two regex searches on it:            *)
(*             [sleep |-> None or the two captured groups,                 *)
(*              feed  |-> None or the two captured groups]                 *)
(***************************************************************************)
EXTENDS Integers, Sequences, FiniteSets, TLC

VARIABLES
    last_sleep_data,   \* analyzer.last_sleep_data
    last_feed_data,    \* analyzer.last_feed_data
    op,                \* the handler or method that ran last
    arg,               \* its input
    fault,             \* the step of the handler that raised, if one did
    replies,           \* the replies it sent, in order
    ret,               \* what the core call inside it returned or raised
    chart              \* the series of the timeline chart it drew

vars == <<last_sleep_data, last_feed_data, op, arg, fault, replies, ret, chart>>

None == [kind |-> "None"]

(***************************************************************************)
(* Bounds of the model.                                                    *)
(***************************************************************************)
MaxMsgs == 2      \* messages per archive

(***************************************************************************)
(* Program constants.                                                      *)
(***************************************************************************)
MaxFileSize == 20971520    \* 20 * 1024 * 1024
CutoffHour == 4            \* time(4, 0)
MaxStrDigits == 4300       \* sys.int_info.default_max_str_digits

(***************************************************************************)
(* datetime library: calendar, strptime, fromisoformat, timedelta.         *)
(***************************************************************************)
IsLeap(y) == (y % 4 = 0) /\ ((y % 100 # 0) \/ (y % 400 = 0))

DaysInMonth(y, m) ==
    IF m = 2 THEN (IF IsLeap(y) THEN 29 ELSE 28)
    ELSE IF m \in {4, 6, 9, 11} THEN 30 ELSE 31

RECURSIVE DaysBeforeMonth(_, _)
DaysBeforeMonth(y, m) ==
    IF m <= 1 THEN 0 ELSE DaysBeforeMonth(y, m - 1) + DaysInMonth(y, m - 1)

DaysBeforeYear(y) ==
    (y - 1) * 365 + ((y - 1) \div 4) - ((y - 1) \div 100) + ((y - 1) \div 400)

toordinal(y, m, d) == DaysBeforeYear(y) + DaysBeforeMonth(y, m) + d

\* date.min and date.max
date_min == toordinal(1, 1, 1)
date_max == toordinal(9999, 12, 31)

ValueError == [kind |-> "ValueError"]
OverflowError == [kind |-> "OverflowError"]

\* datetime.fromisoformat(msg['date']); ValueError when the fields are not a
\* date of the calendar and a time of day
fromisoformat(s) ==
    IF /\ s.y \in 1..9999
       /\ s.m \in 1..12
       /\ s.d \in 1..DaysInMonth(s.y, s.m)
       /\ s.hh \in 0..23
       /\ s.mi \in 0..59
    THEN [date |-> toordinal(s.y, s.m, s.d), min |-> s.hh * 60 + s.mi]
    ELSE ValueError

\* int(s) of a string of one or two decimal digits, of any script
int(digits) ==
    IF Len(digits) = 1 THEN digits[1].v ELSE digits[1].v * 10 + digits[2].v

\* strptime's %H is the regex 2[0-3]|[0-1]\d|\d followed by the colon: of
\* two hour digits the first must be an ASCII 0, 1 or 2, and after an ASCII 2
\* the second must be an ASCII 0-3; one hour digit may be of any script
directive_H(h) ==
    IF Len(h) = 1 THEN TRUE
    ELSE /\ h[1].ascii
         /\ \/ h[1].v \in 0..1
            \/ h[1].v = 2 /\ h[2].ascii /\ h[2].v \in 0..3

\* strptime's %M is the regex [0-5]\d|\d and nothing may remain after it:
\* the first of the two minute digits must be an ASCII 0-5
directive_M(m) == m[1].ascii /\ m[1].v \in 0..5

\* datetime.strptime(s, "%H:%M").time(); ValueError when the token does not
\* match the two directives
strptime_HM(tok) ==
    IF directive_H(tok[1]) /\ directive_M(tok[2])
    THEN [kind |-> "time", min |-> int(tok[1]) * 60 + int(tok[2])]
    ELSE ValueError

\* datetime.combine(date, time)
combine(date, min) == [date |-> date, min |-> min]

\* dt + timedelta(days=n); OverflowError ("date value out of range") when
\* the result leaves date.min..date.max
add_days(dt, n) ==
    IF dt.date + n < date_min \/ dt.date + n > date_max THEN OverflowError
    ELSE [dt EXCEPT !.date = @ + n]

\* (a - b) as minutes; the code's total_seconds() is 60 times this
minutes_between(a, b) == (a.date - b.date) * (24 * 60) + (a.min - b.min)

(***************************************************************************)
(* BabyDataAnalyzer.parse_chat_data                                        *)
(***************************************************************************)
\* sleep_shift_always: the 04:00 re-anchoring taken out of the overnight test
sleep_shift_always(msg_date, start_time, end_time) ==
    LET start_dt == combine(msg_date.date, start_time)
        end_dt == combine(msg_date.date, end_time)
        end1 == IF end_time <= start_time THEN add_days(end_dt, 1) ELSE end_dt
        early == msg_date.min < CutoffHour * 60
    IN  IF end1 = OverflowError THEN OverflowError
        ELSE IF ~early
        THEN [date |-> start_dt.date, start |-> start_dt, end |-> end1]
        ELSE IF add_days(start_dt, -1) = OverflowError THEN OverflowError
        ELSE [date |-> start_dt.date - 1, start |-> add_days(start_dt, -1),
              end |-> add_days(end1, -1)]

\* sleep_shift_never: the 04:00 re-anchoring dropped
sleep_shift_never(msg_date, start_time, end_time) ==
    LET start_dt == combine(msg_date.date, start_time)
        end_dt == combine(msg_date.date, end_time)
        end1 == IF end_time <= start_time THEN add_days(end_dt, 1) ELSE end_dt
    IN  IF end1 = OverflowError THEN OverflowError
        ELSE [date |-> start_dt.date, start |-> start_dt, end |-> end1]

\* lines 66-75: the sleep record of a message dated msg_date, or the
\* OverflowError of line 70 (the end of a message dated date.max moved to the
\* next day) or of line 72 (the start of a message dated date.min moved to
\* the day before).  Line 70 runs before lines 72-73, so a message dated
\* date.max raises also when it was logged before 04:00.
sleep_record(msg_date, start_time, end_time) ==
    LET start_dt == combine(msg_date.date, start_time)
        end_dt == combine(msg_date.date, end_time)
        overnight == end_time <= start_time
        early == overnight /\ msg_date.min < CutoffHour * 60
        end1 == IF overnight THEN add_days(end_dt, 1) ELSE end_dt
    IN  IF end1 = OverflowError THEN OverflowError
        ELSE IF ~early
        THEN [date |-> start_dt.date, start |-> start_dt, end |-> end1]
        ELSE IF add_days(start_dt, -1) = OverflowError THEN OverflowError
        ELSE [date |-> start_dt.date - 1, start |-> add_days(start_dt, -1),
              end |-> add_days(end1, -1)]

\* int(feed_match.group(2)): the group \d+ is kept as the number of its
\* digits and its value; int() raises ValueError on more than 4300 digits
int_amount(group) ==
    IF group.len > MaxStrDigits THEN ValueError
    ELSE [kind |-> "int", value |-> group.value]

\* lines 81-84: the feed record of a message dated msg_date
feed_record(msg_date, feed_time, amount) ==
    [date |-> msg_date.date, time |-> combine(msg_date.date, feed_time),
     amount |-> amount]

\* lines 50-84: one turn of the loop over the messages; line 57 reads and
\* parses the date of every message of type "message" before either pattern
\* is tried (KeyError without a 'date' key), and the search of line 60 raises
\* TypeError on a text that is null.
parse_sleep(msg_date, st, et) ==
    IF st = ValueError \/ et = ValueError
    THEN [kind |-> "raise", exc |-> "ValueError"]
    ELSE IF sleep_record(msg_date, st.min, et.min) = OverflowError
    THEN [kind |-> "raise", exc |-> "OverflowError"]
    ELSE [kind |-> "sleep", rec |-> sleep_record(msg_date, st.min, et.min)]

parse_feed(msg_date, ft, amount) ==
    IF ft = ValueError \/ amount = ValueError
    THEN [kind |-> "raise", exc |-> "ValueError"]
    ELSE [kind |-> "feed", rec |-> feed_record(msg_date, ft.min, amount.value)]

parse_message(msg) ==
    IF msg.type # "message" THEN [kind |-> "skip"]
    ELSE IF msg.date = None THEN [kind |-> "raise", exc |-> "KeyError"]
    ELSE IF fromisoformat(msg.date) = ValueError
    THEN [kind |-> "raise", exc |-> "ValueError"]
    ELSE IF msg.text = None THEN [kind |-> "raise", exc |-> "TypeError"]
    ELSE IF msg.text.sleep # None
    THEN parse_sleep(fromisoformat(msg.date),
                     strptime_HM(msg.text.sleep.start),
                     strptime_HM(msg.text.sleep.end))
    ELSE IF msg.text.feed # None
    THEN parse_feed(fromisoformat(msg.date),
                    strptime_HM(msg.text.feed.time),
                    int_amount(msg.text.feed.amount))
    ELSE [kind |-> "skip"]

\* lines 49-84: the loop from message i on; r is the outcome of message i
RECURSIVE parse_loop(_, _, _, _)
parse_step(messages, i, sleep_data, feed_data, r) ==
    CASE r.kind = "raise" ->
            [raised |-> r.exc, sleep_data |-> <<>>, feed_data |-> <<>>]
      [] r.kind = "sleep" ->
            parse_loop(messages, i + 1, Append(sleep_data, r.rec), feed_data)
      [] r.kind = "feed" ->
            parse_loop(messages, i + 1, sleep_data, Append(feed_data, r.rec))
      [] OTHER ->
            parse_loop(messages, i + 1, sleep_data, feed_data)

parse_loop(messages, i, sleep_data, feed_data) ==
    IF i > Len(messages)
    THEN [raised |-> "no", sleep_data |-> sleep_data, feed_data |-> feed_data]
    ELSE parse_step(messages, i, sleep_data, feed_data, parse_message(messages[i]))

\* lines 87-88: self.last_sleep_data = sleep_data (and the same for the feeds)
save_last(held, parsed) == parsed

\* lines 86-90, which store and return only when the loop r did not raise
parse_finish(r, held) ==
    IF r.raised # "no"
    THEN [raised |-> r.raised, sleep_data |-> <<>>, feed_data |-> <<>>,
          held |-> held]
    ELSE [raised |-> "no", sleep_data |-> r.sleep_data,
          feed_data |-> r.feed_data,
          held |-> [sleep |-> save_last(held.sleep, r.sleep_data),
                    feed |-> save_last(held.feed, r.feed_data)]]

\* parse_chat_data(data) on an analyzer holding `held`: what it returns or
\* raises, and what the analyzer holds afterwards.  data['messages'] of line
\* 45 raises TypeError when data is not a JSON object (a list, null, a
\* string, a number) and KeyError when the object has no such key.
parse_chat_data(data, held) ==
    IF ~data.is_dict
    THEN [raised |-> "TypeError", sleep_data |-> <<>>, feed_data |-> <<>>,
          held |-> held]
    ELSE IF ~data.has_messages
    THEN [raised |-> "KeyError", sleep_data |-> <<>>, feed_data |-> <<>>,
          held |-> held]
    ELSE parse_finish(parse_loop(data.messages, 1, <<>>, <<>>), held)

(***************************************************************************)
(* BabyDataAnalyzer.get_daily_stats and format_daily_stats                 *)
(***************************************************************************)
RECURSIVE sum_amount(_, _)
sum_amount(feed_data, day) ==
    IF feed_data = <<>> THEN 0
    ELSE (IF Head(feed_data).date = day THEN Head(feed_data).amount ELSE 0)
         + sum_amount(Tail(feed_data), day)

RECURSIVE sum_sleep(_, _)
sum_sleep(sleep_data, day) ==
    IF sleep_data = <<>> THEN 0
    ELSE (IF Head(sleep_data).date = day
          THEN minutes_between(Head(sleep_data).end, Head(sleep_data).start)
          ELSE 0)
         + sum_sleep(Tail(sleep_data), day)

\* sum_sleep_by_end_day: a sleep is counted on the day it ends
RECURSIVE sum_sleep_by_end_day(_, _)
sum_sleep_by_end_day(sleep_data, day) ==
    IF sleep_data = <<>> THEN 0
    ELSE (IF Head(sleep_data).end.date = day
          THEN minutes_between(Head(sleep_data).end, Head(sleep_data).start)
          ELSE 0)
         + sum_sleep_by_end_day(Tail(sleep_data), day)

\* daily_stats_by_end_day: daily_stats with the sleep counted on its end day
daily_stats_by_end_day(held, current_date) ==
    LET total_sleep == sum_sleep_by_end_day(held.sleep, current_date)
    IN  [date |-> current_date,
         total_food |-> sum_amount(held.feed, current_date),
         sleep_minutes |-> total_sleep,
         awake_minutes |-> 24 * 60 - total_sleep]

\* lines 101-121: the entry of one day.  sleep_hours is sleep_minutes / 60
\* and awake_hours is awake_minutes / 60.
daily_stats(held, current_date) ==
    LET total_sleep == sum_sleep(held.sleep, current_date)
    IN  [date |-> current_date,
         total_food |-> sum_amount(held.feed, current_date),
         sleep_minutes |-> total_sleep,
         awake_minutes |-> 24 * 60 - total_sleep]

\* lines 98-124: while current_date <= end_date; the dict keeps the order of
\* insertion, so it is the sequence of its values.  Line 124 steps to the
\* next day after every entry, also after the last one, and raises
\* OverflowError when the entry was that of date.max.
RECURSIVE stats_range(_, _, _)
stats_step(entry, rest) ==
    IF rest.raised # "no" THEN rest
    ELSE [raised |-> "no", days |-> <<entry>> \o rest.days]

stats_range(held, current_date, end_date) ==
    IF current_date > end_date THEN [raised |-> "no", days |-> <<>>]
    ELSE IF current_date + 1 > date_max
    THEN [raised |-> "OverflowError", days |-> <<>>]
    ELSE stats_step(daily_stats(held, current_date),
                    stats_range(held, current_date + 1, end_date))

\* what get_daily_stats returns (None or the entries) or raises
stats_result(r) ==
    IF r.raised # "no" THEN [kind |-> "raise", exc |-> r.raised]
    ELSE [kind |-> "stats", days |-> r.days]

get_daily_stats(held, start_date, end_date) ==
    IF held.sleep = <<>> /\ held.feed = <<>> THEN None
    ELSE stats_result(stats_range(held, start_date, end_date))

\* The text is kept as its blocks, one per day, each holding the numbers the
\* four lines of the block are printed from.
format_daily_stats(stats) ==
    IF stats = None \/ stats.days = <<>>
    THEN [kind |-> "text", id |-> "NoDataForPeriod"]
    ELSE [kind |-> "text", id |-> "Report", blocks |-> stats.days]

(***************************************************************************)
(* BabyDataAnalyzer.get_color_by_amount and create_timeline_chart          *)
(***************************************************************************)
\* cmap(0.3), cmap(0.5), cmap(0.7), cmap(0.9) as the tenths 3, 5, 7, 9
get_color_by_amount(amount) ==
    IF amount <= 40 THEN 3
    ELSE IF amount <= 70 THEN 5
    ELSE IF amount <= 100 THEN 7
    ELSE 9

RECURSIVE sorted(_)
sorted(S) ==
    IF S = {} THEN <<>>
    ELSE LET m == CHOOSE x \in S : \A y \in S : x <= y
         IN  <<m>> \o sorted(S \ {m})

\* lines 150-156
all_dates(sleep_data, feed_data) ==
    sorted({sleep_data[k].date : k \in DOMAIN sleep_data}
           \cup {feed_data[k].date : k \in DOMAIN feed_data})

RECURSIVE row_hlines(_, _, _)
row_hlines(sleep_data, i, day) ==
    IF sleep_data = <<>> THEN <<>>
    ELSE LET sleep == Head(sleep_data)
             base_time == combine(day, 0)
         IN  (IF sleep.date = day
              THEN <<[y |-> i,
                      xmin |-> minutes_between(sleep.start, base_time),
                      xmax |-> minutes_between(sleep.end, base_time)]>>
              ELSE <<>>)
             \o row_hlines(Tail(sleep_data), i, day)

RECURSIVE row_points(_, _, _)
row_points(feed_data, i, day) ==
    IF feed_data = <<>> THEN <<>>
    ELSE LET feed == Head(feed_data)
             base_time == combine(day, 0)
         IN  (IF feed.date = day
              THEN <<[x |-> minutes_between(feed.time, base_time), y |-> i,
                      color |-> get_color_by_amount(feed.amount)]>>
              ELSE <<>>)
             \o row_points(Tail(feed_data), i, day)

\* What ax.hlines and ax.plot are called with, row by row; x is in minutes
\* (the code's hours times 60) and the x axis is set to 0..24 hours.
create_timeline_chart(sleep_data, feed_data) ==
    IF sleep_data = <<>> /\ feed_data = <<>> THEN None
    ELSE LET days == all_dates(sleep_data, feed_data)
         IN  [kind |-> "chart",
              rows |-> [k \in DOMAIN days |->
                          [day |-> days[k],
                           hlines |-> row_hlines(sleep_data, k - 1, days[k]),
                           points |-> row_points(feed_data, k - 1, days[k])]]]

(***************************************************************************)
(* handle_document                                                         *)
(***************************************************************************)
Text(id) == [kind |-> "text", id |-> id]
Photo(id) == [kind |-> "photo", id |-> id]

\* The steps of lines 425-461 that can raise once parse_chat_data has
\* returned: a reply that is not delivered or a chart that cannot be drawn.
\* The exception is any but a KeyError, and its handler's reply is delivered.
Faults == {"none", "reply_nothing", "reply_found", "create_timeline_chart",
           "reply_timeline", "create_summary_chart", "reply_summary",
           "reply_done"}

\* lines 434-461: the replies sent up to the step that raised, then the
\* reply of lines 467-469, and the timeline if it was drawn
handle_found(found, timeline, f) ==
    CASE f = "reply_found" ->
            [replies |-> <<Text("FileReceived"), Text("ProcessingError")>>,
             chart |-> None]
      [] f = "create_timeline_chart" ->
            [replies |-> <<Text("FileReceived"), found,
                           Text("ProcessingError")>>,
             chart |-> None]
      [] f = "reply_timeline" ->
            [replies |-> <<Text("FileReceived"), found,
                           Text("ProcessingError")>>,
             chart |-> timeline]
      [] f \in {"create_summary_chart", "reply_summary"} ->
            [replies |-> <<Text("FileReceived"), found, Photo("Timeline"),
                           Text("ProcessingError")>>,
             chart |-> timeline]
      [] f = "reply_done" ->
            [replies |-> <<Text("FileReceived"), found, Photo("Timeline"),
                           Photo("Summary"), Text("ProcessingError")>>,
             chart |-> timeline]
      [] OTHER ->
            [replies |-> <<Text("FileReceived"), found, Photo("Timeline"),
                           Photo("Summary"), Text("AnalysisDone")>>,
             chart |-> timeline]

\* lines 423-469: after parse_chat_data returned or raised r; f is the step
\* that raises if it is reached.  The lists were stored at lines 87-88
\* before parse_chat_data returned, so r.held is held whatever follows.
handle_parsed(r, f) ==
    LET parsed == [kind |-> "parsed", raised |-> r.raised,
                   sleep_data |-> r.sleep_data, feed_data |-> r.feed_data]
        out(rs, c) == [replies |-> rs, held |-> r.held, ret |-> parsed, chart |-> c]
        found == [kind |-> "text", id |-> "Found",
                  sleeps |-> Len(r.sleep_data), feeds |-> Len(r.feed_data)]
        sent == handle_found(found,
                             create_timeline_chart(r.sleep_data, r.feed_data), f)
    IN  IF r.raised = "KeyError"
        THEN out(<<Text("FileReceived"), Text("KeyNotFound")>>, None)
        ELSE IF r.raised # "no"
        THEN out(<<Text("FileReceived"), Text("ProcessingError")>>, None)
        ELSE IF r.sleep_data = <<>> /\ r.feed_data = <<>>
        THEN (IF f = "reply_nothing"
              THEN out(<<Text("FileReceived"), Text("ProcessingError")>>, None)
              ELSE out(<<Text("FileReceived"), Text("NothingFound")>>, None))
        ELSE out(sent.replies, sent.chart)

\* lines 400-469.  Lines 404 and 408 are outside the try: a file_name or a
\* file_size that is None raises there (AttributeError, TypeError) and the
\* handler ends without a reply.  Inside the try, a download that fails and
\* bytes that are not UTF-8 (UnicodeDecodeError) reach `except Exception`;
\* only text that is not JSON reaches `except json.JSONDecodeError`.
handle_document(document, f, held) ==
    LET unchanged(rs) ==
            [replies |-> rs, held |-> held, ret |-> [kind |-> "not_called"],
             chart |-> None]
        escaped(exc) ==
            [replies |-> <<>>, held |-> held,
             ret |-> [kind |-> "raise", exc |-> exc], chart |-> None]
    IN  IF document.file_name = None THEN escaped("AttributeError")
        ELSE IF ~document.file_name.endswith_json
        THEN unchanged(<<Text("SendJsonFile")>>)
        ELSE IF document.file_size = None THEN escaped("TypeError")
        ELSE IF document.file_size.value > MaxFileSize
        THEN unchanged(<<Text("FileTooBig")>>)
        ELSE IF document.content.kind \in {"download_error", "not_utf8"}
        THEN unchanged(<<Text("FileReceived"), Text("ProcessingError")>>)
        ELSE IF document.content.kind # "json"
        THEN unchanged(<<Text("FileReceived"), Text("InvalidJson")>>)
        ELSE handle_parsed(parse_chat_data(document.content, held), f)

(***************************************************************************)
(* parse_date and data_command                                             *)
(***************************************************************************)
\* datetime.strptime(date_str, "%d.%m.%Y").date(), None on ValueError
parse_date(date_str) ==
    IF /\ date_str.kind = "date"
       /\ date_str.y \in 1..9999
       /\ date_str.m \in 1..12
       /\ date_str.d \in 1..DaysInMonth(date_str.y, date_str.m)
    THEN [kind |-> "date",
          ordinal |-> toordinal(date_str.y, date_str.m, date_str.d)]
    ELSE None

\* str.lower() of one character, a character being its code point.  The
\* characters of a word are those of U+0000..U+00FF and U+0400..U+04FF
\* (ASCII, Latin-1 and Cyrillic), each of which has a lower case of one
\* character.
lower_char(c) ==
    IF c \in 65..90 THEN c + 32
    ELSE IF c \in 192..222 /\ c # 215 THEN c + 32
    ELSE IF c \in 1024..1039 THEN c + 80
    ELSE IF c \in 1040..1071 THEN c + 32
    ELSE IF /\ c \in (1120..1153) \cup (1162..1215) \cup (1232..1279)
            /\ c % 2 = 0
    THEN c + 1
    ELSE IF c = 1216 THEN 1231
    ELSE IF c \in 1217..1229 /\ c % 2 = 1 THEN c + 1
    ELSE c

\* args[0].lower(): every character of a word in lower case; a date is made
\* of digits and dots and is its own lower case
lower(a) ==
    IF a.kind # "word" THEN a
    ELSE [kind |-> "word", text |-> [i \in DOMAIN a.text |-> lower_char(a.text[i])]]

\* the literals 'today' and 'yesterday' of lines 364 and 366
today_word == [kind |-> "word", text |-> <<116, 111, 100, 97, 121>>]
yesterday_word ==
    [kind |-> "word", text |-> <<121, 101, 115, 116, 101, 114, 100, 97, 121>>]

\* lines 392-398: the reply to the statistics of a..b; an exception of
\* get_daily_stats leaves the handler, which has no try, without a reply
report(held, stats) ==
    IF stats # None /\ stats.kind = "raise"
    THEN [replies |-> <<>>, ret |-> stats, chart |-> None, held |-> held]
    ELSE [replies |-> IF format_daily_stats(stats).id = "NoDataForPeriod"
                      THEN <<Text("NoDataForPeriod")>>
                      ELSE <<format_daily_stats(stats)>>,
          ret |-> stats, chart |-> None, held |-> held]

\* a reply sent before any statistics are asked for
silent(held, id) ==
    [replies |-> <<Text(id)>>, ret |-> [kind |-> "not_called"],
     chart |-> None, held |-> held]

\* data_command_no_swap: a reversed range is not put in order
data_command_no_swap(args, today, held) ==
    IF held.sleep = <<>> /\ held.feed = <<>>
    THEN silent(held, "LoadFileFirst")
    ELSE IF args = <<>>
    THEN silent(held, "UsagePeriod")
    ELSE IF lower(args[1]) = today_word
    THEN report(held, get_daily_stats(held, today, today))
    ELSE IF lower(args[1]) = yesterday_word
    THEN (IF today - 1 < date_min
          THEN [replies |-> <<>>, ret |-> [kind |-> "raise", exc |-> "OverflowError"],
                chart |-> None, held |-> held]
          ELSE report(held, get_daily_stats(held, today - 1, today - 1)))
    ELSE IF Len(args) = 2
    THEN (IF parse_date(args[1]) = None \/ parse_date(args[2]) = None
          THEN silent(held, "BadDateFormat")
          ELSE report(held, get_daily_stats(held, parse_date(args[1]).ordinal,
                                            parse_date(args[2]).ordinal)))
    ELSE silent(held, "BadArgCount")

\* lines 343-398; today is datetime.now().date().  Line 367 raises
\* OverflowError when today is date.min.
data_command(args, today, held) ==
    IF held.sleep = <<>> /\ held.feed = <<>>
    THEN silent(held, "LoadFileFirst")
    ELSE IF args = <<>>
    THEN silent(held, "UsagePeriod")
    ELSE IF lower(args[1]) = today_word
    THEN report(held, get_daily_stats(held, today, today))
    ELSE IF lower(args[1]) = yesterday_word
    THEN (IF today - 1 < date_min
          THEN [replies |-> <<>>, ret |-> [kind |-> "raise", exc |-> "OverflowError"],
                chart |-> None, held |-> held]
          ELSE report(held, get_daily_stats(held, today - 1, today - 1)))
    ELSE IF Len(args) = 2
    THEN (IF parse_date(args[1]) = None \/ parse_date(args[2]) = None
          THEN silent(held, "BadDateFormat")
          ELSE IF parse_date(args[1]).ordinal > parse_date(args[2]).ordinal
          THEN report(held, get_daily_stats(held, parse_date(args[2]).ordinal,
                                            parse_date(args[1]).ordinal))
          ELSE report(held, get_daily_stats(held, parse_date(args[1]).ordinal,
                                            parse_date(args[2]).ordinal)))
    ELSE silent(held, "BadArgCount")

(***************************************************************************)
(* Inputs.                                                                 *)
(***************************************************************************)
Iso(y, m, d, hh, mi) == [y |-> y, m |-> m, d |-> d, hh |-> hh, mi |-> mi]

SleepText(s, e) ==
    [sleep |-> [kind |-> "match", start |-> s, end |-> e], feed |-> None]
\* the group \d+ of an amount below 1000, written without leading zeros
Amount(n) ==
    [len |-> IF n < 10 THEN 1 ELSE IF n < 100 THEN 2 ELSE 3, value |-> n]
FeedText(t, n) ==
    [sleep |-> None,
     feed |-> [kind |-> "match", time |-> t, amount |-> Amount(n)]]
BothText(s, e, t, n) ==
    [sleep |-> [kind |-> "match", start |-> s, end |-> e],
     feed |-> [kind |-> "match", time |-> t, amount |-> Amount(n)]]
NoText == [sleep |-> None, feed |-> None]

Message(date, text) == [type |-> "message", date |-> date, text |-> text]

\* an ASCII digit and a decimal digit of another script
D(v) == [v |-> v, ascii |-> TRUE]
U(v) == [v |-> v, ascii |-> FALSE]

\* the token "H:MM" or "HH:MM" in ASCII digits, the hour without a leading
\* zero, and the token "HH:MM" with both hour digits written
HM(h, m) ==
    <<IF h < 10 THEN <<D(h)>> ELSE <<D(h \div 10), D(h % 10)>>,
      <<D(m \div 10), D(m % 10)>>>>
HHMM(h, m) == <<<<D(h \div 10), D(h % 10)>>, <<D(m \div 10), D(m % 10)>>>>

\* The messages the archives of Spec are made of.
mNight == Message(Iso(2025, 7, 22, 0, 15), SleepText(HM(23, 30), HHMM(6, 0)))
mNap == Message(Iso(2025, 7, 21, 12, 0), SleepText(HHMM(9, 30), HM(11, 0)))
mFeed == Message(Iso(2025, 7, 21, 14, 30), FeedText(HM(14, 20), 80))
mFeedLater == Message(Iso(2025, 7, 23, 8, 0), FeedText(HM(7, 50), 120))
mBadTime == Message(Iso(2025, 7, 21, 12, 0), SleepText(HM(25, 0), HM(11, 0)))

Messages == {mNight, mNap, mFeed, mFeedLater}

\* archives with the malformed time alone, last and first
BadArchives == {<<mBadTime>>, <<mFeed, mBadTime>>, <<mBadTime, mFeed>>}

RECURSIVE SeqsUpTo(_, _)
SeqsUpTo(S, n) ==
    IF n = 0 THEN {<<>>}
    ELSE LET shorter == SeqsUpTo(S, n - 1)
         IN  shorter \cup {Append(q, x) : q \in shorter, x \in S}

\* document.file_name and document.file_size, either of which may be None
FileName(json) == [kind |-> "str", endswith_json |-> json]
FileSize(n) == [kind |-> "int", value |-> n]
JsonFile(content) ==
    [file_name |-> FileName(TRUE), file_size |-> FileSize(1024),
     content |-> content]
Archive(messages) ==
    JsonFile([kind |-> "json", is_dict |-> TRUE, has_messages |-> TRUE,
              messages |-> messages])

\* The documents that are not an archive: an object without the key, a JSON
\* value that is not an object, text that is not JSON, bytes that are not
\* UTF-8, a download that fails, a name that is not *.json, a file over the
\* limit, and a document without a name or without a size.
OtherDocuments ==
    {JsonFile([kind |-> "json", is_dict |-> TRUE, has_messages |-> FALSE,
               messages |-> <<>>]),
     JsonFile([kind |-> "json", is_dict |-> FALSE, has_messages |-> FALSE,
               messages |-> <<>>]),
     JsonFile([kind |-> "invalid"]),
     JsonFile([kind |-> "not_utf8"]),
     JsonFile([kind |-> "download_error"]),
     [file_name |-> FileName(FALSE), file_size |-> FileSize(1024),
      content |-> [kind |-> "invalid"]],
     [file_name |-> FileName(TRUE), file_size |-> FileSize(MaxFileSize + 1),
      content |-> [kind |-> "invalid"]],
     [file_name |-> None, file_size |-> FileSize(1024),
      content |-> [kind |-> "invalid"]],
     [file_name |-> FileName(TRUE), file_size |-> None,
      content |-> [kind |-> "invalid"]]}

Documents ==
    {Archive(q) : q \in SeqsUpTo(Messages, MaxMsgs) \cup BadArchives}
    \cup OtherDocuments

\* The ingestions of Spec: every document with no step raising, and the
\* archives of at most one message with each step of lines 425-461 raising.
FaultMessages == {mNap, mFeed}
Ingestions ==
    {[document |-> d, fault |-> "none"] : d \in Documents}
    \cup {[document |-> Archive(q), fault |-> f] :
             q \in SeqsUpTo(FaultMessages, 1), f \in Faults \ {"none"}}

Word(w) == [kind |-> "word", text |-> w]
DateArg(d, m, y) == [kind |-> "date", d |-> d, m |-> m, y |-> y]

d21 == DateArg(21, 7, 2025)
d23 == DateArg(23, 7, 2025)
dLast == DateArg(31, 12, 9999)
dLastButOne == DateArg(30, 12, 9999)

\* "TODAY", "Yesterday", "today" and, in Cyrillic capitals, the Russian word
\* for yesterday, as code points
wTODAY == Word(<<84, 79, 68, 65, 89>>)
wYesterday == Word(<<89, 101, 115, 116, 101, 114, 100, 97, 121>>)
wtoday == Word(<<116, 111, 100, 97, 121>>)
wVCHERA == Word(<<1042, 1063, 1045, 1056, 1040>>)

ArgTokens == {wTODAY, wYesterday, d21, d23, DateArg(31, 6, 2025)}

\* context.args: nothing, one word, two words and two lists of three; and
\* the ranges over the last two days of the calendar
ArgLists ==
    {<<>>} \cup {<<a>> : a \in ArgTokens}
    \cup {<<a, b>> : a \in ArgTokens, b \in ArgTokens}
    \cup {<<d21, d23, d21>>, <<wtoday, d21, d23>>, <<wVCHERA>>}
EdgeArgLists ==
    {<<dLast, dLast>>, <<dLastButOne, dLast>>, <<dLast, dLastButOne>>,
     <<dLastButOne, dLastButOne>>}

Todays == {toordinal(2025, 7, 22)}

\* the /data commands of Spec: every argument list on a day of July 2025,
\* and today and yesterday on the first and the last day of the calendar
Queries == {[args |-> a, today |-> t] : a \in ArgLists, t \in Todays}
EdgeQueries ==
    {[args |-> a, today |-> t] : a \in EdgeArgLists, t \in Todays}
    \cup {[args |-> <<w>>, today |-> t] :
             w \in {wtoday, wYesterday}, t \in {date_min, date_max}}

StatDays == toordinal(2025, 7, 20) .. toordinal(2025, 7, 23)

\* the ranges get_daily_stats is called with: the days of July in either
\* order, and the last two days of the calendar
StatRanges == StatDays \X StatDays
EdgeStatRanges == {date_max - 1, date_max} \X {date_max - 1, date_max}

\* The single messages of SpecParse: every pairing of the clock times below,
\* logged on either side of 04:00 and on the first day of a month.
ClockTokens ==
    {HHMM(0, 0), HM(6, 0), HHMM(9, 30), HM(11, 0), HM(23, 30), HM(23, 59)}
LogDates == {Iso(2025, 7, d, t[1], t[2]) :
                d \in {1, 21},
                t \in {<<0, 15>>, <<3, 59>>, <<4, 0>>, <<23, 31>>}}
ParseTexts ==
    {SleepText(s, e) : s \in ClockTokens, e \in ClockTokens}
    \cup {FeedText(t, n) : t \in ClockTokens, n \in {0, 40, 41, 101}}
    \cup {BothText(HM(23, 30), HM(6, 0), HM(14, 20), 80), NoText}

\* Tokens with digits outside 0-9: one the two directives reject (both
\* minute digits of another script) and two they take (a single hour digit,
\* and second digits, of another script).
tFullWidth == <<<<U(9)>>, <<U(3), U(0)>>>>
tHourOnly == <<<<U(9)>>, <<D(3), D(0)>>>>
tSecondDigits == <<<<D(1), U(4)>>, <<D(2), U(0)>>>>

\* One message each: a service message, a date that is not of the calendar,
\* a message without a date, a text that is null, the tokens above, and an
\* amount of 4301 zeros.
OddMessages ==
    {[type |-> "service", date |-> Iso(2025, 7, 21, 12, 0),
      text |-> SleepText(HM(9, 30), HM(11, 0))],
     Message(Iso(2025, 2, 30, 12, 0), SleepText(HM(9, 30), HM(11, 0))),
     Message(None, SleepText(HM(9, 30), HM(11, 0))),
     Message(Iso(2025, 7, 21, 12, 0), None),
     Message(Iso(2025, 7, 21, 12, 0), SleepText(tFullWidth, HM(11, 0))),
     Message(Iso(2025, 7, 21, 12, 0), SleepText(tHourOnly, HM(11, 0))),
     Message(Iso(2025, 7, 21, 12, 0), FeedText(tSecondDigits, 80)),
     Message(Iso(2025, 7, 21, 12, 0),
             [sleep |-> None,
              feed |-> [kind |-> "match", time |-> HM(14, 20),
                        amount |-> [len |-> MaxStrDigits + 1, value |-> 0]]])}

\* Messages dated the last and the first day of the calendar, logged before
\* and after 04:00: a sleep that crosses midnight, one that does not, a feed.
EdgeMessages(y, m, d) ==
    {Message(Iso(y, m, d, t[1], t[2]), x) :
        t \in {<<0, 15>>, <<23, 31>>},
        x \in {SleepText(HM(23, 30), HM(6, 0)), SleepText(HM(9, 30), HM(11, 0)),
               FeedText(HM(14, 20), 80)}}

ParseDocuments ==
    {Archive(<<Message(d, t)>>) : d \in LogDates, t \in ParseTexts}
    \cup {Archive(<<m>>) : m \in OddMessages}
LastDayDocuments == {Archive(<<m>>) : m \in EdgeMessages(9999, 12, 31)}
FirstDayDocuments == {Archive(<<m>>) : m \in EdgeMessages(1, 1, 1)}

(***************************************************************************)
(* State machine.                                                          *)
(***************************************************************************)
held == [sleep |-> last_sleep_data, feed |-> last_feed_data]

Init ==
    /\ last_sleep_data = <<>>
    /\ last_feed_data = <<>>
    /\ op = "init"
    /\ arg = None
    /\ fault = "none"
    /\ replies = <<>>
    /\ ret = None
    /\ chart = None

\* What one call leaves behind: out is what it sent, returned and stored.
Effect(out) ==
    /\ replies' = out.replies
    /\ ret' = out.ret
    /\ chart' = out.chart
    /\ last_sleep_data' = out.held.sleep
    /\ last_feed_data' = out.held.feed

HandleDocument(document, f) ==
    /\ op' = "document"
    /\ arg' = document
    /\ fault' = f
    /\ Effect(handle_document(document, f, held))

DataCommand(args, today) ==
    /\ op' = "data"
    /\ arg' = [args |-> args, today |-> today]
    /\ fault' = "none"
    /\ Effect(data_command(args, today, held))

GetDailyStats(start_date, end_date) ==
    /\ op' = "get_daily_stats"
    /\ arg' = [start_date |-> start_date, end_date |-> end_date]
    /\ fault' = "none"
    /\ Effect([replies |-> <<>>,
               ret |-> get_daily_stats(held, start_date, end_date),
               chart |-> None, held |-> held])

Ingest == \E i \in Ingestions : HandleDocument(i.document, i.fault)
Query ==
    \/ \E q \in Queries : DataCommand(q.args, q.today)
    \/ \E q \in EdgeQueries : DataCommand(q.args, q.today)
Stats ==
    \/ \E r \in StatRanges : GetDailyStats(r[1], r[2])
    \/ \E r \in EdgeStatRanges : GetDailyStats(r[1], r[2])

Next == Ingest \/ Query \/ Stats

Spec == Init /\ [][Next]_vars

IngestOne ==
    \/ \E document \in ParseDocuments : HandleDocument(document, "none")
    \/ \E document \in LastDayDocuments : HandleDocument(document, "none")
    \/ \E document \in FirstDayDocuments : HandleDocument(document, "none")

NextParse == IngestOne

SpecParse == Init /\ [][NextParse]_vars

(***************************************************************************)
(* Vocabulary of the properties.                                           *)
(***************************************************************************)
Clock(tok) == int(tok[1]) * 60 + int(tok[2])
\* a 24-hour clock time written in the digits 0-9
ValidClock(tok) ==
    /\ \A i \in DOMAIN tok[1] : tok[1][i].ascii
    /\ \A i \in DOMAIN tok[2] : tok[2][i].ascii
    /\ int(tok[1]) <= 23 /\ int(tok[2]) <= 59
DayMinutes == {m \in Int : 0 <= m /\ m <= 24 * 60}

\* the last operation ingested an archive that has a messages list
IngestedArchive ==
    /\ op = "document"
    /\ arg.file_name # None /\ arg.file_name.endswith_json
    /\ arg.file_size # None /\ arg.file_size.value <= MaxFileSize
    /\ arg.content.kind = "json"
    /\ arg.content.is_dict
    /\ arg.content.has_messages

\* a date of the calendar with a time of day
ValidIso(s) ==
    /\ s.y >= 1 /\ s.m \in 1..12 /\ s.d >= 1 /\ s.d <= DaysInMonth(s.y, s.m)
    /\ s.hh <= 23 /\ s.mi <= 59

\* ... of exactly one message, recognized as a sleep with two valid times
IngestedOneSleep ==
    /\ IngestedArchive
    /\ Len(arg.content.messages) = 1
    /\ arg.content.messages[1].type = "message"
    /\ arg.content.messages[1].date # None
    /\ ValidIso(arg.content.messages[1].date)
    /\ arg.content.messages[1].text # None
    /\ arg.content.messages[1].text.sleep # None
    /\ ValidClock(arg.content.messages[1].text.sleep.start)
    /\ ValidClock(arg.content.messages[1].text.sleep.end)

TheMsg == arg.content.messages[1]
MsgDay == toordinal(TheMsg.date.y, TheMsg.date.m, TheMsg.date.d)
MsgClock == TheMsg.date.hh * 60 + TheMsg.date.mi
StartClock == Clock(TheMsg.text.sleep.start)
EndClock == Clock(TheMsg.text.sleep.end)
TheSleep == last_sleep_data[1]
Duration(r) == (r.end.date - r.start.date) * 24 * 60 + r.end.min - r.start.min

\* C1: a recognized sleep whose end clock time is <= its start clock time
\* lasts 24h - (start - end), which is in (0h, 24h] and is 6.5 hours for
\* 23:30-06:00; it starts the day before the message when the message was
\* logged before 04:00 and on the message's day, ending the day after,
\* otherwise.
C1_OvernightCorrection ==
    (IngestedOneSleep /\ EndClock <= StartClock) =>
        /\ Len(last_sleep_data) = 1
        /\ Duration(TheSleep) = 24 * 60 - (StartClock - EndClock)
        /\ Duration(TheSleep) \in 1 .. 24 * 60
        /\ (StartClock = 23 * 60 + 30 /\ EndClock = 6 * 60)
              => 2 * Duration(TheSleep) = 13 * 60
        /\ TheSleep.start.min = StartClock
        /\ TheSleep.end.min = EndClock
        /\ IF MsgClock < 4 * 60
           THEN TheSleep.start.date = MsgDay - 1
           ELSE TheSleep.start.date = MsgDay /\ TheSleep.end.date = MsgDay + 1

\* C2: a recognized sleep whose end clock time is later than its start clock
\* time starts and ends on the message's date, whenever the message was
\* logged; its anchor day is the message's date and it lasts end - start.
C2_SameDayNoShift ==
    (IngestedOneSleep /\ EndClock > StartClock) =>
        /\ Len(last_sleep_data) = 1
        /\ TheSleep.start.date = MsgDay
        /\ TheSleep.end.date = MsgDay
        /\ TheSleep.date = MsgDay
        /\ Duration(TheSleep) = EndClock - StartClock

\* a same-day sleep logged before 04:00 kept the message's date
C2_Witness ==
    /\ IngestedOneSleep
    /\ EndClock > StartClock
    /\ MsgClock < 4 * 60
    /\ Len(last_sleep_data) = 1
    /\ TheSleep.date = MsgDay

\* C3 as stated: every recognized sleep logged before 04:00 has its start
\* and its end moved back one day, whatever the order of its clock times.
C3_ShiftWheneverEarly ==
    (IngestedOneSleep /\ MsgClock < 4 * 60) =>
        /\ Len(last_sleep_data) = 1
        /\ TheSleep.date = MsgDay - 1
        /\ TheSleep.start.date = MsgDay - 1
        /\ TheSleep.end.date =
              (IF EndClock <= StartClock THEN MsgDay + 1 ELSE MsgDay) - 1

\* the ingestion failed on the overflow of the day arithmetic
Overflowed ==
    /\ ret.kind = "parsed" /\ ret.raised = "OverflowError"
    /\ replies = <<Text("FileReceived"), Text("ProcessingError")>>

\* C3 amended: a recognized sleep logged before 04:00 has its start and its
\* end moved back one day exactly when its end clock time is <= its start
\* clock time; otherwise neither is moved.  On the first and on the last
\* day of the calendar the sleep that would be moved yields no record: the
\* ingestion fails on the overflow.
C3_ShiftOnlyOvernight ==
    (IngestedOneSleep /\ MsgClock < 4 * 60) =>
        IF EndClock > StartClock
        THEN /\ Len(last_sleep_data) = 1
             /\ TheSleep.date = MsgDay
             /\ TheSleep.start.date = MsgDay
             /\ TheSleep.end.date = MsgDay
        ELSE IF MsgDay \in {date_min, date_max}
        THEN Overflowed
        ELSE /\ Len(last_sleep_data) = 1
             /\ TheSleep.date = MsgDay - 1
             /\ TheSleep.start.date = MsgDay - 1
             /\ TheSleep.end.date = MsgDay

\* a sleep with equal clock times logged at 03:59 was moved back one day
C3_Witness ==
    /\ IngestedOneSleep
    /\ EndClock = StartClock
    /\ MsgClock = 3 * 60 + 59
    /\ Len(last_sleep_data) = 1
    /\ TheSleep.start.date = MsgDay - 1
    /\ TheSleep.end.date = MsgDay

\* C10: every hour offset handed to the drawing backend lies in 0..24
\* (0..1440 minutes): both ends of every sleep line and every feed point.
C10_OffsetsWithinDay ==
    (op = "document" /\ chart # None) =>
        \A k \in DOMAIN chart.rows :
            /\ \A j \in DOMAIN chart.rows[k].hlines :
                  /\ chart.rows[k].hlines[j].xmin \in DayMinutes
                  /\ chart.rows[k].hlines[j].xmax \in DayMinutes
            /\ \A j \in DOMAIN chart.rows[k].points :
                  chart.rows[k].points[j].x \in DayMinutes

(***************************************************************************)
(* Properties of the dataset and of the /data query, under Spec.           *)
(***************************************************************************)
Loaded == last_sleep_data # <<>> \/ last_feed_data # <<>>

RECURSIVE SumOver(_, _)
SumOver(f, S) ==
    IF S = {} THEN 0
    ELSE LET k == CHOOSE x \in S : TRUE IN f[k] + SumOver(f, S \ {k})

FeedsOn(d) == {k \in DOMAIN last_feed_data : last_feed_data[k].date = d}
SleepsOn(d) == {k \in DOMAIN last_sleep_data : last_sleep_data[k].date = d}
FoodOn(d) == SumOver([k \in DOMAIN last_feed_data |-> last_feed_data[k].amount],
                     FeedsOn(d))
SleepOn(d) == SumOver([k \in DOMAIN last_sleep_data |->
                          Duration(last_sleep_data[k])], SleepsOn(d))

\* a message that matches a pattern but carries an invalid clock time
Malformed(msg) ==
    /\ msg.type = "message"
    /\ msg.text # None
    /\ IF msg.text.sleep # None
       THEN ~ValidClock(msg.text.sleep.start) \/ ~ValidClock(msg.text.sleep.end)
       ELSE msg.text.feed # None /\ ~ValidClock(msg.text.feed.time)

WellFormed(msg) == ~Malformed(msg)

\* a message that matches a pattern and carries valid clock times
Recognized(msg) ==
    /\ msg.type = "message"
    /\ msg.text # None
    /\ msg.text.sleep # None \/ msg.text.feed # None
    /\ ~Malformed(msg)

\* C4: in an archive that holds valid records, a message with an invalid
\* clock time is skipped alone: the dataset held after the ingestion is made
\* of the records of every other message of the archive, and the ingestion
\* is not answered with a failure.
C4_MalformedMessageSkipped ==
    (/\ IngestedArchive
     /\ \E k \in DOMAIN arg.content.messages : Malformed(arg.content.messages[k])
     /\ \E k \in DOMAIN arg.content.messages : Recognized(arg.content.messages[k]))
    =>
        LET rest == SelectSeq(arg.content.messages, WellFormed)
            want == parse_loop(rest, 1, <<>>, <<>>)
        IN  /\ last_sleep_data = want.sleep_data
            /\ last_feed_data = want.feed_data
            /\ replies[Len(replies)].id # "ProcessingError"

\* the attempt was answered with one of the handler's failure replies, or
\* left the handler without a reply
AttemptFailed ==
    \/ replies = <<>>
    \/ replies[Len(replies)].id \in
          {"SendJsonFile", "FileTooBig", "InvalidJson", "KeyNotFound",
           "ProcessingError"}

StatsReturned == op \in {"data", "get_daily_stats"} /\ ret.kind = "stats"

\* C6: in every entry of the statistics, total_food is the sum of the volumes
\* of the feed records of that day, sleep is the sum of the full durations of
\* the sleep records anchored to that day (so a sleep that crosses midnight
\* adds nothing to the next day), and awake is 24 hours minus sleep.
C6_DailyTotals ==
    StatsReturned =>
        \A k \in DOMAIN ret.days :
            /\ ret.days[k].total_food = FoodOn(ret.days[k].date)
            /\ ret.days[k].sleep_minutes = SleepOn(ret.days[k].date)
            /\ ret.days[k].awake_minutes = 24 * 60 - ret.days[k].sleep_minutes

\* two sleeps anchored to one day, one of them crossing midnight: the day got
\* both durations and the next day got none
C6_Witness ==
    /\ StatsReturned
    /\ Len(ret.days) >= 2
    /\ Len(last_sleep_data) = 2
    /\ \E k \in DOMAIN ret.days :
          /\ k + 1 \in DOMAIN ret.days
          /\ last_sleep_data[1].date = ret.days[k].date
          /\ last_sleep_data[2].date = ret.days[k].date
          /\ last_sleep_data[1].end.date = ret.days[k + 1].date
          /\ ret.days[k].sleep_minutes = 8 * 60
          /\ ret.days[k + 1].sleep_minutes = 0

\* C7: with a dataset held and a <= b, get_daily_stats(a, b) has b - a + 1
\* entries, for the days a, a+1, .., b in that order, with zeros on the days
\* no record falls on; it returns None exactly when no dataset is held.
C7_RangeShape ==
    (op = "get_daily_stats") =>
        /\ (ret = None) <=> ~Loaded
        /\ (Loaded /\ arg.start_date <= arg.end_date) =>
              /\ ret.kind = "stats"
              /\ Len(ret.days) = arg.end_date - arg.start_date + 1
              /\ \A k \in DOMAIN ret.days :
                    /\ ret.days[k].date = arg.start_date + k - 1
                    /\ (FeedsOn(ret.days[k].date) = {}) =>
                          ret.days[k].total_food = 0
                    /\ (SleepsOn(ret.days[k].date) = {}) =>
                          ret.days[k].sleep_minutes = 0

WellFormedDate(a) ==
    /\ a.kind = "date"
    /\ a.y >= 1 /\ a.m \in 1..12 /\ a.d \in 1..DaysInMonth(a.y, a.m)
DayOf(a) == toordinal(a.y, a.m, a.d)
\* the word a is w, given in small letters, in some mix of capital and small
\* letters
IsWord(a, w) ==
    /\ a.kind = "word"
    /\ Len(a.text) = Len(w)
    /\ \A i \in DOMAIN w : a.text[i] \in {w[i], w[i] - 32}
TodayWord == <<116, 111, 100, 97, 121>>
YesterdayWord == <<121, 101, 115, 116, 101, 114, 100, 97, 121>>
LoadedQuery == op = "data" /\ Loaded
Min(a, b) == IF a <= b THEN a ELSE b
Max(a, b) == IF a <= b THEN b ELSE a

\* the reply is the report of exactly the days a..b
ReportOf(a, b) ==
    /\ Len(replies) = 1
    /\ replies[1].id = "Report"
    /\ Len(replies[1].blocks) = b - a + 1
    /\ \A k \in DOMAIN replies[1].blocks : replies[1].blocks[k].date = a + k - 1

\* C8: with a dataset held, a query for a well-formed range on which no
\* record falls is answered with the message kept for an empty range.
C8_EmptyRangeMessage ==
    (/\ LoadedQuery
     /\ Len(arg.args) = 2
     /\ WellFormedDate(arg.args[1]) /\ WellFormedDate(arg.args[2])
     /\ \A d \in Min(DayOf(arg.args[1]), DayOf(arg.args[2]))
                 .. Max(DayOf(arg.args[1]), DayOf(arg.args[2])) :
           FeedsOn(d) = {} /\ SleepsOn(d) = {})
    => replies = <<[kind |-> "text", id |-> "NoDataForPeriod"]>>

\* C9 as stated: with a dataset held, no arguments, one well-formed date, two
\* well-formed dates, "today" and "yesterday" are all answered with
\* statistics, never with a usage or wrong-argument-count message.
C9_EveryFormAnswered ==
    (/\ LoadedQuery
     /\ \/ arg.args = <<>>
        \/ Len(arg.args) = 1 /\ WellFormedDate(arg.args[1])
        \/ Len(arg.args) = 2 /\ WellFormedDate(arg.args[1])
                             /\ WellFormedDate(arg.args[2])
        \/ Len(arg.args) = 1 /\ (IsWord(arg.args[1], TodayWord) \/ IsWord(arg.args[1], YesterdayWord)))
    => (replies # <<>> /\ replies[1].id = "Report")

\* the query got no reply: the day arithmetic overflowed
NoReply == replies = <<>> /\ ret.kind = "raise" /\ ret.exc = "OverflowError"

\* the reply to the statistics of a..b: the report, or nothing when b is the
\* last day of the calendar
Answered(a, b) == IF b = date_max THEN NoReply ELSE ReportOf(a, b)

\* C9 amended: with a dataset held, two well-formed dates give the statistics
\* of the inclusive range between them (in either order), a first argument
\* "today" or "yesterday" gives the statistics of that single day, no
\* arguments are answered with the usage message and one date alone with
\* the wrong-argument-count message.  A range that ends on 31.12.9999, and
\* "yesterday" asked on 01.01.0001, get no reply.
C9_AcceptedForms ==
    LoadedQuery =>
        /\ (arg.args = <<>>) => replies = <<Text("UsagePeriod")>>
        /\ (Len(arg.args) = 1 /\ arg.args[1].kind = "date") =>
              replies = <<Text("BadArgCount")>>
        /\ (Len(arg.args) = 2 /\ WellFormedDate(arg.args[1])
                              /\ WellFormedDate(arg.args[2])) =>
              Answered(Min(DayOf(arg.args[1]), DayOf(arg.args[2])),
                       Max(DayOf(arg.args[1]), DayOf(arg.args[2])))
        /\ (arg.args # <<>> /\ IsWord(arg.args[1], TodayWord)) =>
              Answered(arg.today, arg.today)
        /\ (arg.args # <<>> /\ IsWord(arg.args[1], YesterdayWord)) =>
              IF arg.today = date_min THEN NoReply
              ELSE Answered(arg.today - 1, arg.today - 1)

\* two dates given latest first were answered with the three days between
C9_Witness ==
    /\ LoadedQuery
    /\ Len(arg.args) = 2
    /\ WellFormedDate(arg.args[1]) /\ WellFormedDate(arg.args[2])
    /\ DayOf(arg.args[1]) = DayOf(arg.args[2]) + 2
    /\ ReportOf(DayOf(arg.args[2]), DayOf(arg.args[1]))

====
